---- MODULE Spec2Model ----
(***************************************************************************)
(* A model of mcp-oda: the tool facade of src/mcp_oda/__main__.py, the     *)
(* OdaClient of src/mcp_oda/tools.py it drives, and the web site as the    *)
(* environment.  Every facade handler is one action (handlers are          *)
(* coroutines of one event loop and the facade is called one request at a  *)
(* time); a background cart refresh is a task of its own whose await       *)
(* points are separate actions interleaved with the handlers.              *)
(*                                                                         *)
(* A URL is the sequence of its path segments followed by its query        *)
(* string, every path segment being delimited by "/" on both sides:        *)
(* "/no/cart/" is <<"no", "cart">>.  "'/cart/' in url" is then "the        *)
(* segment sequence <<"cart">> occurs contiguously in the URL".            *)
(***************************************************************************)
EXTENDS Integers, Sequences, FiniteSets, Bags, TLC

\* ------------------------------------------------------------------ bounds
\* Largest number of background refresh tasks outstanding at once.
MaxTasks == 1
\* Indices a caller may pass range over -(MaxIndex+1) .. MaxIndex.
MaxIndex == 2

\* ------------------------------------------------------- PageContext (enum)
CART == "cart"
PRODUCT_SEARCH == "product_search"
RECIPE_SEARCH == "recipe_search"
RECIPE_INFO == "recipe_info"
PageContext == {CART, PRODUCT_SEARCH, RECIPE_SEARCH, RECIPE_INFO}
\* Python's None, where the code returns or stores it.
None == "None"

\* --------------------------------------------------------------------- URLs
\* f"{BASE_URL}/cart/"
CartUrl == <<"no", "cart">>
\* f"{BASE_URL}/search/products/?{q}"
ProductSearchUrl(query) == <<"no", "search", "products", query>>
\* f"{BASE_URL}/recipes/all/" (query None)
RecipeSearchUrl == <<"no", "recipes", "all">>
\* The queries a caller searches products for.
Queries == {"q=melk"}
\* A recipe's page, /no/recipes/608-pizza/.
RecipeUrl == <<"no", "recipes", "608-pizza">>
\* The page the site redirects a visitor without a session to.
LoginUrl == <<"no", "user", "login">>
\* A page before its first navigation.
BlankUrl == <<"about:blank">>
\* The empty string.
EmptyUrl == <<>>

\* s in url, for a pattern "/a/b/" given as its segments s.
Contains(url, s) ==
    \E i \in 0..(Len(url) - Len(s)) : SubSeq(url, i + 1, i + Len(s)) = s

\* The rules with the last two in the other order.
_determine_context_from_url_swapped(url) ==
    IF Contains(url, <<"cart">>) THEN CART
    ELSE IF Contains(url, <<"search", "products">>) THEN PRODUCT_SEARCH
    ELSE IF Contains(url, <<"recipes">>) THEN RECIPE_INFO
    ELSE IF Contains(url, <<"recipes", "all">>) THEN RECIPE_SEARCH
    ELSE None

_determine_context_from_url(url) ==
    IF Contains(url, <<"cart">>) THEN CART
    ELSE IF Contains(url, <<"search", "products">>) THEN PRODUCT_SEARCH
    ELSE IF Contains(url, <<"recipes", "all">>) THEN RECIPE_SEARCH
    ELSE IF Contains(url, <<"recipes">>) THEN RECIPE_INFO
    ELSE None

\* ----------------------------------------------------------------- the site
\* The one product the site sells.
Product == "melk"
\* An article element: the name its name selector yields ("" when the
\* selector matches nothing), the product its controls act on, the quantity
\* its quantity field shows: "0" on a result card, "1", or "many" for every
\* larger number.
Article(name, product, quantity) ==
    [name |-> name, product |-> product, quantity |-> quantity]
\* A cart line, as the site keeps it and as its article on the cart page
\* shows it.
Line(product, quantity) == Article(product, product, quantity)
\* The article elements of the first page of a product search: it opens with
\* a promoted card whose markup the name selector does not match.
ProductCards(url) ==
    IF url = ProductSearchUrl("q=melk")
    THEN <<Article("", Product, "0"), Article(Product, Product, "0")>>
    ELSE <<>>
\* The article elements of the second and last page of that search: one card,
\* of a product that is sold out, which shows no control to add it.
SoldOut == "lettmelk"
ProductCardsPage2 == <<Article(SoldOut, "", "0")>>
\* The a[href^="/no/recipes/"] links of the recipe listing, in DOM order: a
\* provider link, a recipe and the same recipe again (image and title link).
RecipeLinks(url) ==
    IF url = RecipeSearchUrl
    THEN << <<"no", "recipes", "provider", "12">>, RecipeUrl, RecipeUrl >>
    ELSE <<>>
\* Path segments that begin with a digit.
DigitSegments == {"608-pizza", "12"}

\* A page as the browser shows it: its URL, its article elements, its recipe
\* links.  The cart page has one article per cart line.
PageOf(url, articles) ==
    [url |-> url, articles |-> articles, links |-> RecipeLinks(url)]
Render(url, sc) ==
    PageOf(url, IF url = CartUrl THEN sc ELSE ProductCards(url))
\* No page: a background page not opened yet, or closed.
NoPage == PageOf(EmptyUrl, <<>>)
BlankPage == PageOf(BlankUrl, <<>>)

\* The site answers a navigation with the page asked for; a search it may
\* answer by sending the visitor to the login page.
Landings(url) ==
    IF url \in {RecipeSearchUrl} \cup {ProductSearchUrl(q) : q \in Queries}
    THEN {url, LoginUrl} ELSE {url}
\* What the control labelled "Neste side" puts on the page, in place: the
\* second page of a product search; NoPage where the page shows no such
\* control.
NextPage(pg) ==
    IF pg.url \in {ProductSearchUrl(q) : q \in Queries}
       /\ pg.articles = ProductCards(pg.url)
    THEN PageOf(pg.url, ProductCardsPage2) ELSE NoPage
\* What the control labelled "Forrige side" puts on the page: the first page
\* of the search, from its second.
PrevPage(pg) ==
    IF pg.url \in {ProductSearchUrl(q) : q \in Queries}
       /\ pg.articles = ProductCardsPage2
    THEN PageOf(pg.url, ProductCards(pg.url)) ELSE NoPage

\* The carts the site may hold after it has added one unit of a product, and
\* after it has removed one: a line of many units may still hold many.
HasLine(sc, name) == \E i \in 1..Len(sc) : sc[i].product = name
LineOf(sc, name) == CHOOSE i \in 1..Len(sc) : sc[i].product = name
SiteAdd(sc, name) ==
    IF HasLine(sc, name)
    THEN {[sc EXCEPT ![LineOf(sc, name)].quantity = "many"]}
    ELSE {Append(sc, Line(name, "1"))}
SiteRemove(sc, name) ==
    IF ~HasLine(sc, name) THEN {sc}
    ELSE IF sc[LineOf(sc, name)].quantity = "many"
    THEN {sc, [sc EXCEPT ![LineOf(sc, name)].quantity = "1"]}
    ELSE {SubSeq(sc, 1, LineOf(sc, name) - 1)
          \o SubSeq(sc, LineOf(sc, name) + 1, Len(sc))}

\* A network response: whether its URL contains the cart-items endpoint, and
\* its status; status 0 stands for no response within the wait.
Response(cart_items, status) == [cart_items |-> cart_items, status |-> status]
NoResponse == Response(FALSE, 0)
Responses ==
    {NoResponse, Response(FALSE, 200), Response(TRUE, 500)}
    \cup {Response(TRUE, s) : s \in {200, 201, 204}}

\* ---------------------------------------------------------------- variables
VARIABLES
    page_context,      \* lifespan["page_context"]
    cart,              \* lifespan["cart"], the cached cart snapshot
    valid_urls,        \* lifespan["valid_urls"], the URL allow-list
    background_tasks,  \* the refresh tasks not yet done, a bag of task states
    pages,             \* what lifespan["page"] and lifespan["detail_page"] show
    site_cart,         \* the cart the site keeps
    last,              \* the step just taken: operation, outcome, effects
    issued,            \* every page_url a facade call has returned
    caller             \* the caller: calls in flight, position in its script

vars == <<page_context, cart, valid_urls, background_tasks, pages, site_cart,
          last, issued, caller>>

\* _page(ctx), _detail_page(ctx) and the bg_page local to a refresh task.
Page == "page"
DetailPage == "detail_page"
BgPage == "bg_page"
PageIds == {Page, DetailPage}
Indices == (-(MaxIndex + 1))..MaxIndex

\* ------------------------------------------------------- browser primitives
\* page.goto(url) on a page showing pg, the site's cart being sc: it raises
\* and leaves the page where it was, or it returns with the page the site
\* answered with.
goto(pg, url, sc) ==
    {[ok |-> FALSE, page |-> pg]}
    \cup {[ok |-> TRUE, page |-> Render(l, sc)] : l \in Landings(url)}

\* ------------------------------------------------------ OdaClient (tools.py)
CartItem(index, name, quantity) ==
    [index |-> index, name |-> name, quantity |-> quantity]
SearchResult(index, name) == [index |-> index, name |-> name]
Recipe(index, name) == [index |-> index, name |-> name]
\* ProductPage and RecipePage: the page URL and the items.
ResultPage(page_url, items) == [page_url |-> page_url, items |-> items]
NoResult == ResultPage(EmptyUrl, <<>>)

_extract_cart_item(index, article) ==
    CartItem(index,
             IF article.name = "" THEN "Unknown Product" ELSE article.name,
             article.quantity)

\* asyncio.gather over _extract_cart_item for every article, failing being
\* the positions of the articles a field read of which raises (a locator
\* that matches nothing within its timeout, a quantity that is no integer):
\* the first exception is the outcome of the gather, and there is no result.
GatherCartItems(articles, failing) ==
    IF failing # {} THEN [ok |-> FALSE, items |-> <<>>]
    ELSE [ok |-> TRUE,
          items |-> [i \in 1..Len(articles) |->
                        _extract_cart_item(i - 1, articles[i])]]

\* The outcomes of get_cart_contents on a page showing pg: [ok, items, page].
\* It raises when the navigation fails, when the page reached is not titled
\* as the cart, and when reading a field of an article times out.
get_cart_contents(pg, sc) ==
    LET raise(x) == [ok |-> FALSE, items |-> <<>>, page |-> x]
    IN  UNION {IF ~g.ok \/ g.page.url # CartUrl THEN {raise(g.page)}
               ELSE {[ok |-> r.ok, items |-> r.items, page |-> g.page]
                     : r \in {GatherCartItems(g.page.articles, failing)
                              : failing \in SUBSET (1..Len(g.page.articles))}}
               : g \in goto(pg, CartUrl, sc)}

\* The loop numbering every result by the DOM position of its article.
RECURSIVE ScrapeCardsByPosition(_, _, _)
ScrapeCardsByPosition(articles, i, results) ==
    IF i > Len(articles) THEN results
    ELSE IF articles[i].name = ""
    THEN ScrapeCardsByPosition(articles, i + 1, results)
    ELSE ScrapeCardsByPosition(articles, i + 1,
                               Append(results,
                                      SearchResult(i - 1, articles[i].name)))

\* The loop of _scrape_search_results over the articles from position i on:
\* a card without a name is skipped, the others are numbered consecutively.
RECURSIVE ScrapeCards(_, _, _)
ScrapeCards(articles, i, results) ==
    IF i > Len(articles) THEN results
    ELSE IF articles[i].name = "" THEN ScrapeCards(articles, i + 1, results)
    ELSE ScrapeCards(articles, i + 1,
                     Append(results, SearchResult(Len(results), articles[i].name)))

\* The same loop, keeping for every result the DOM position (from 0) of the
\* article it was built from.
RECURSIVE ScrapeOrigins(_, _, _)
ScrapeOrigins(articles, i, origins) ==
    IF i > Len(articles) THEN origins
    ELSE IF articles[i].name = "" THEN ScrapeOrigins(articles, i + 1, origins)
    ELSE ScrapeOrigins(articles, i + 1, Append(origins, i - 1))

\* _scrape_search_results on a page: the batch query fails and the result is
\* empty, or every article is mapped.
_scrape_search_results(pg) ==
    {ResultPage(pg.url, <<>>), ResultPage(pg.url, ScrapeCards(pg.articles, 1, <<>>))}

\* The predicate without its test of the segment before the last.
_is_valid_recipe_url_any_depth(url) ==
    IF Len(url) < 3 THEN FALSE
    ELSE url[Len(url)] \in DigitSegments

_is_valid_recipe_url(url) ==
    IF Len(url) < 3 THEN FALSE
    ELSE IF url[Len(url) - 1] # "recipes" THEN FALSE
    ELSE url[Len(url)] \in DigitSegments

\* The loop of _scrape_recipes over the links from position i on.
RECURSIVE ScrapeLinks(_, _, _, _)
ScrapeLinks(links, i, seen_urls, recipes) ==
    IF i > Len(links) THEN recipes
    ELSE IF links[i] = EmptyUrl \/ links[i] \in seen_urls
    THEN ScrapeLinks(links, i + 1, seen_urls, recipes)
    ELSE IF ~_is_valid_recipe_url(links[i])
    THEN ScrapeLinks(links, i + 1, seen_urls, recipes)
    ELSE ScrapeLinks(links, i + 1, seen_urls \cup {links[i]},
                     Append(recipes,
                            Recipe(Len(recipes), links[i][Len(links[i])])))

_scrape_recipes(pg) ==
    {<<>>, ScrapeLinks(pg.links, 1, {}, <<>>)}

_scrape_recipes_page(pg) ==
    {ResultPage(pg.url, items) : items \in _scrape_recipes(pg)}

\* The loop that counts a repeated link again.
RECURSIVE ResolveLinkRepeated(_, _, _, _, _)
ResolveLinkRepeated(links, i, seen_urls, valid_count, index) ==
    IF i > Len(links) THEN EmptyUrl
    ELSE IF links[i] = EmptyUrl \/ ~_is_valid_recipe_url(links[i])
    THEN ResolveLinkRepeated(links, i + 1, seen_urls, valid_count, index)
    ELSE IF valid_count = index THEN links[i]
    ELSE ResolveLinkRepeated(links, i + 1, seen_urls, valid_count + 1, index)

\* The loop of get_recipe_url: the URL of the index-th valid distinct link,
\* EmptyUrl for None.
RECURSIVE ResolveLink(_, _, _, _, _)
ResolveLink(links, i, seen_urls, valid_count, index) ==
    IF i > Len(links) THEN EmptyUrl
    ELSE IF links[i] = EmptyUrl \/ links[i] \in seen_urls
    THEN ResolveLink(links, i + 1, seen_urls, valid_count, index)
    ELSE IF ~_is_valid_recipe_url(links[i])
    THEN ResolveLink(links, i + 1, seen_urls, valid_count, index)
    ELSE IF valid_count = index THEN links[i]
    ELSE ResolveLink(links, i + 1, seen_urls \cup {links[i]},
                     valid_count + 1, index)

get_recipe_url(pg, index) == ResolveLink(pg.links, 1, {}, 0, index)

\* search_products: navigation and the wait for network idle may raise.
search_products(pg, query, sc) ==
    UNION {IF ~g.ok THEN {[ok |-> FALSE, result |-> NoResult, page |-> g.page]}
           ELSE {[ok |-> FALSE, result |-> NoResult, page |-> g.page]}
                \cup {[ok |-> TRUE, result |-> r, page |-> g.page]
                       : r \in _scrape_search_results(g.page)}
           : g \in goto(pg, ProductSearchUrl(query), sc)}

\* search_recipes with query None: only the navigation may raise.
search_recipes(pg, sc) ==
    UNION {IF ~g.ok THEN {[ok |-> FALSE, result |-> NoResult, page |-> g.page]}
           ELSE {[ok |-> TRUE, result |-> r, page |-> g.page]
                 : r \in _scrape_recipes_page(g.page)}
           : g \in goto(pg, RecipeSearchUrl, sc)}

NEXT_PAGE == "Neste side"
PREV_PAGE == "Forrige side"
\* What the control with the given label puts on the page.
ControlTarget(pg, label) ==
    IF label = NEXT_PAGE THEN NextPage(pg)
    ELSE IF label = PREV_PAGE THEN PrevPage(pg)
    ELSE NoPage

\* scraper_func(), for the scraper named.
Call(scraper_func, pg) ==
    IF scraper_func = "_scrape_search_results" THEN _scrape_search_results(pg)
    ELSE _scrape_recipes_page(pg)

\* The scrape always reads the page as it was before the click.
_navigate_preclick(pg, label, scraper_func) ==
    LET none(x, c) ==
            [found |-> FALSE, result |-> NoResult, page |-> x, clicked |-> c]
        target == ControlTarget(pg, label)
    IN  {none(pg, FALSE)}
        \cup (IF target = NoPage THEN {}
              ELSE {none(x, TRUE) : x \in {pg, target}}
                   \cup UNION {{[found |-> TRUE, result |-> r,
                                  page |-> x, clicked |-> TRUE]
                                 : r \in Call(scraper_func, pg)}
                                : x \in {pg, target}})

\* _navigate: [found, result, page, clicked]; found FALSE is the None it
\* returns when the control is not visible or anything raised.  The scrape
\* after the click reads the page the control leads to, or the page as it
\* was when the wait for the change has run out.
_navigate(pg, label, scraper_func) ==
    LET none(x, c) ==
            [found |-> FALSE, result |-> NoResult, page |-> x, clicked |-> c]
        target == ControlTarget(pg, label)
    IN  {none(pg, FALSE)}
        \cup (IF target = NoPage THEN {}
              ELSE {none(x, TRUE) : x \in {pg, target}}
                   \cup UNION {{[found |-> TRUE, result |-> r,
                                  page |-> x, clicked |-> TRUE]
                                 : r \in Call(scraper_func, x)}
                                : x \in {pg, target}})

\* The empty result without the URL of the page.
OrEmptyNoUrl(o) ==
    [result |-> IF o.found THEN o.result ELSE NoResult,
     page |-> o.page, clicked |-> o.clicked]

\* "... or ProductPage(self.page.url, [])"
OrEmpty(o) ==
    [result |-> IF o.found THEN o.result ELSE ResultPage(o.page.url, <<>>),
     page |-> o.page, clicked |-> o.clicked]

search_next_page(pg) ==
    {OrEmpty(o) : o \in _navigate(pg, NEXT_PAGE, "_scrape_search_results")}

search_previous_page(pg) ==
    {OrEmpty(o) : o \in _navigate(pg, PREV_PAGE, "_scrape_search_results")}

search_recipes_next(pg) ==
    {OrEmpty(o) : o \in _navigate(pg, NEXT_PAGE, "_scrape_recipes_page")}

search_recipes_previous(pg) ==
    {OrEmpty(o) : o \in _navigate(pg, PREV_PAGE, "_scrape_recipes_page")}

\* The checkbox ids of the recipe listing's filters.
FilterIds(pg) == IF pg.url = RecipeSearchUrl THEN {"kjapp"} ELSE {}
\* search_recipes_filter: each id whose checkbox is visible is clicked (the
\* listing is filtered in place); clicked tells whether any was.
search_recipes_filter(pg, filter_ids) ==
    {[result |-> r, page |-> pg,
      clicked |-> c /\ \E i \in 1..Len(filter_ids) : filter_ids[i] \in FilterIds(pg)]
     : r \in _scrape_recipes_page(pg), c \in BOOLEAN}

\* scrape_recipe_details: whether the page holds a JSON-LD block typed Recipe.
scrape_recipe_details(pg) ==
    IF pg.url = RecipeUrl THEN {TRUE, FALSE} ELSE {FALSE}

ADD_TO_CART_LABEL == "Legg til i handlekurven"
REMOVE_FROM_CART_LABEL == "Fjern fra handlekurven"

\* The predicate without its test of the status.
MatchesCartResponseAnyStatus(r) == r.cart_items /\ r.status # 0

\* The predicate handed to expect_response.
MatchesCartResponse(r) == r.cart_items /\ r.status \in {200, 201, 204}

\* The site applies a cart request it answers with a success status.
Applied(sc, name, label, r) ==
    IF ~(r.cart_items /\ r.status \in {200, 201, 204}) THEN {sc}
    ELSE IF label = ADD_TO_CART_LABEL THEN SiteAdd(sc, name)
    ELSE SiteRemove(sc, name)

\* The bounds test off by one.
OutOfBoundsOffByOne(index, n) == index > n

\* "index >= len(articles)"
OutOfBounds(index, n) == index >= n

\* _modify_cart on a page showing pg: [ret, clicked, response, page, site].
\* ret is "true", "false" or the exception raised; clicked is the DOM position
\* of the article whose control was clicked, -1 when none was; response is
\* the response that followed the click.  articles[index] is a list index:
\* it counts from the end when negative and raises outside -n .. n-1.
\* Leaving the expect_response block by "return False" awaits the response
\* once more, which raises again: the caller sees False or the timeout.
\* On a card without the control the click finds nothing to act on.
_modify_cart(pg, index, label, sc) ==
    LET n == Len(pg.articles)
        quiet(ret) == [ret |-> ret, clicked |-> -1, response |-> NoResponse,
                       page |-> pg, site |-> sc]
    IN  IF OutOfBounds(index, n) THEN {quiet("false")}
        ELSE IF index < -n \/ index >= n THEN {quiet("IndexError")}
        ELSE LET pos == IF index >= 0 THEN index ELSE n + index
                 name == pg.articles[pos + 1].product
                 shown(x) == IF pg.url = CartUrl THEN Render(CartUrl, x) ELSE pg
                 click(r) ==
                     {[ret |-> ret, clicked |-> pos, response |-> r,
                       page |-> shown(x), site |-> x]
                      : x \in Applied(sc, name, label, r),
                        ret \in IF MatchesCartResponse(r) THEN {"true"}
                                ELSE {"false", "TimeoutError"}}
             IN  {quiet("false"), quiet("TimeoutError")}
                 \cup (IF name = "" THEN {}
                       ELSE UNION {click(r) : r \in Responses})

\* The product a recipe puts into the cart.
RecipeIngredient == Product

\* add_current_recipe on a page showing pg: [ret, clicked, response, site].
\* Every failure is caught and reported as False.
add_current_recipe(pg, portions, sc) ==
    LET click(r) ==
            {[ret |-> IF MatchesCartResponse(r) THEN "true" ELSE "false",
              clicked |-> 0, response |-> r, site |-> x]
             : x \in Applied(sc, RecipeIngredient, ADD_TO_CART_LABEL, r)}
    IN  {[ret |-> "false", clicked |-> -1, response |-> NoResponse, site |-> sc]}
        \cup (IF pg.url # RecipeUrl THEN {}
              ELSE UNION {click(r) : r \in Responses})

\* --------------------------------------------------- session (__main__.py)
\* The registration left out.
_register_page_url_dropped(urls, url) == urls

_register_page_url(urls, url) ==
    IF url # EmptyUrl THEN urls \cup {url} ELSE urls

\* The context left as it was.
_set_context_ignored(current, context) == current

\* _set_context: the context the session holds after it, given the one it
\* held.
_set_context(current, context) == context

\* The test of the allow-list left out.
InValidUrlsAlways(urls, url) == TRUE

\* "url not in valid_urls", negated.
InValidUrls(urls, url) == url \in urls

\* The guard that never raises.
_assert_context_lenient(expected) ==
    [raised |-> FALSE, expected |-> expected, actual |-> page_context]

\* _assert_context: whether it raises, and the two states its message names.
_assert_context(expected) ==
    [raised |-> page_context # expected,
     expected |-> expected, actual |-> page_context]

\* A refresh task between two of its steps: where it stands, what its
\* bg_page shows and the cart items it has scraped.  The tasks are kept as
\* the source keeps them, without order or name.
Task(pc, bg_page, cart_items) ==
    [pc |-> pc, bg_page |-> bg_page, cart_items |-> cart_items]
NewTask == Task("created", NoPage, <<>>)
Outstanding == BagCardinality(background_tasks)
Replaced(tasks, task, by) == (tasks (-) SetToBag({task})) (+) by

\* No task created.
_fire_and_forget_refresh_skipped(tasks) == tasks

\* asyncio.create_task(_refresh_cart(ctx)); background_tasks.add(task)
_fire_and_forget_refresh(tasks) == tasks (+) SetToBag({NewTask})

\* The refresh on the primary page.
RefreshPageShared(bg_page) == Page

\* The page _refresh_cart hands to get_cart_contents, given its bg_page.
RefreshPage(bg_page) == bg_page

\* The refresh keeps the lines it already had.
StoreCartKept(current, cart_items) == current

\* ctx.request_context.lifespan_context["cart"] = cart_items: the snapshot is
\* the list the refresh read, whatever it was before.
StoreCart(current, cart_items) == cart_items

\* What a step leaves in last: the operation, "ok" or the exception it
\* raised and what its message says, the DOM position of the article whose
\* action control it clicked (0 for the one control of a recipe page, -1 when
\* it clicked none), and the response its expect_response accepted when the
\* operation succeeded.
StepRec(op, outcome, error, clicked, response) ==
    [op |-> op, outcome |-> outcome, error |-> error,
     expected |-> None, actual |-> None,
     clicked |-> clicked, response |-> response]
Raised(op, outcome, error) == StepRec(op, outcome, error, -1, NoResponse)
Returned(op) == StepRec(op, "ok", "", -1, NoResponse)

\* The handler raises the ValueError of _assert_context and does nothing else.
InvalidContext(op, g) ==
    /\ last' = [Raised(op, "ValueError", "Invalid page context")
                    EXCEPT !.expected = g.expected, !.actual = g.actual]
    /\ UNCHANGED <<page_context, cart, valid_urls, background_tasks, pages,
                   site_cart, issued>>

\* The caller's state: the calls it has made that have not returned, and,
\* when it follows a script, its position in it, the cart it
\* read first and the cart it read last.
Caller(in_flight, pc, prior, seen) ==
    [in_flight |-> in_flight, pc |-> pc, prior |-> prior, seen |-> seen]
\* A caller that makes one call at a time, in any order.
AnyCaller == Caller({}, "any", <<>>, <<>>)

\* The session as _run leaves it before it serves, the site holding cart sc.
Started(sc) ==
    \E o \in get_cart_contents(BlankPage, sc) :
        /\ page_context = CART
        /\ cart = IF o.ok THEN o.items ELSE <<>>
        /\ valid_urls = {}
        /\ background_tasks = EmptyBag
        /\ pages = [p \in PageIds |->
                       IF p = Page THEN o.page ELSE BlankPage]
        /\ site_cart = sc
        /\ last = Returned("_run")
        /\ issued = {}

Init ==
    /\ \E sc \in {<<>>, <<Line(Product, "1")>>} : Started(sc)
    /\ caller = AnyCaller

\* ------------------------------------------------------------------ facade
cart_get_contents ==
    \E o \in get_cart_contents(pages[Page], site_cart) :
        /\ pages' = [pages EXCEPT ![Page] = o.page]
        /\ IF o.ok
           THEN /\ page_context' = _set_context(page_context, CART)
                /\ cart' = o.items
                /\ last' = Returned("cart_get_contents")
           ELSE /\ last' = Raised("cart_get_contents", "Error", "")
                /\ UNCHANGED <<page_context, cart>>
        /\ UNCHANGED <<valid_urls, background_tasks, site_cart, issued>>

\* The common part of cart_remove_item and product_add_to_cart, with at most
\* the given number of refresh tasks outstanding at a time.
ModifyCartWithin(op, index, label, failure, tasks) ==
    \E o \in _modify_cart(pages[Page], index, label, site_cart) :
        /\ pages' = [pages EXCEPT ![Page] = o.page]
        /\ site_cart' = o.site
        /\ IF o.ret = "true"
           THEN /\ Outstanding < tasks
                /\ background_tasks' = _fire_and_forget_refresh(background_tasks)
                /\ last' = StepRec(op, "ok", "", o.clicked, o.response)
           ELSE /\ last' = StepRec(op,
                                   IF o.ret = "false" THEN "RuntimeError" ELSE o.ret,
                                   IF o.ret = "false" THEN failure ELSE "",
                                   o.clicked, NoResponse)
                /\ UNCHANGED background_tasks
        /\ UNCHANGED <<page_context, cart, valid_urls, issued>>

ModifyCart(op, index, label, failure) ==
    ModifyCartWithin(op, index, label, failure, MaxTasks)

cart_remove_item(index) ==
    LET g == _assert_context(CART)
    IN  IF g.raised THEN InvalidContext("cart_remove_item", g)
        ELSE ModifyCart("cart_remove_item", index, REMOVE_FROM_CART_LABEL,
                        "Failed to remove item")

\* The handler passing the label of the remove control.
product_add_to_cart_removing(index) ==
    LET g == _assert_context(PRODUCT_SEARCH)
    IN  IF g.raised THEN InvalidContext("product_add_to_cart", g)
        ELSE ModifyCart("product_add_to_cart", index, REMOVE_FROM_CART_LABEL,
                        "Failed to add product")

product_add_to_cart(index) ==
    LET g == _assert_context(PRODUCT_SEARCH)
    IN  IF g.raised THEN InvalidContext("product_add_to_cart", g)
        ELSE ModifyCart("product_add_to_cart", index, ADD_TO_CART_LABEL,
                        "Failed to add product")

go_back(url) ==
    IF ~InValidUrls(valid_urls, url)
    THEN /\ last' = Raised("go_back", "ValueError", "Untrusted URL")
         /\ UNCHANGED <<page_context, cart, valid_urls, background_tasks,
                        pages, site_cart, issued>>
    ELSE \E g \in goto(pages[Page], url, site_cart) :
             /\ pages' = [pages EXCEPT ![Page] = g.page]
             /\ IF ~g.ok
                THEN /\ last' = Raised("go_back", "RuntimeError",
                                       "Failed to navigate")
                     /\ UNCHANGED page_context
                ELSE /\ last' = Returned("go_back")
                     /\ page_context' =
                            IF _determine_context_from_url(url) # None
                            THEN _set_context(page_context,
                                              _determine_context_from_url(url))
                            ELSE page_context
             /\ UNCHANGED <<cart, valid_urls, background_tasks, site_cart,
                            issued>>

\* The common part of the handlers that return a result page: the page URL is
\* registered; context is the context the session holds when they return.
ReturnPage(op, result, context) ==
    /\ valid_urls' = _register_page_url(valid_urls, result.page_url)
    /\ issued' = issued \cup {result.page_url}
    /\ page_context' = context
    /\ last' = Returned(op)

\* The same for the pagination handlers; last keeps whether the control was
\* clicked (position 0, the one control with the label).
ReturnPaged(op, o, context) ==
    /\ valid_urls' = _register_page_url(valid_urls, o.result.page_url)
    /\ issued' = issued \cup {o.result.page_url}
    /\ page_context' = context
    /\ last' = StepRec(op, "ok", "", IF o.clicked THEN 0 ELSE -1, NoResponse)

products_search(query) ==
    \E o \in search_products(pages[Page], query, site_cart) :
        /\ pages' = [pages EXCEPT ![Page] = o.page]
        /\ IF o.ok
           THEN ReturnPage("products_search", o.result,
                           _set_context(page_context, PRODUCT_SEARCH))
           ELSE /\ last' = Raised("products_search", "Error", "")
                /\ UNCHANGED <<page_context, valid_urls, issued>>
        /\ UNCHANGED <<cart, background_tasks, site_cart>>

products_search_next ==
    LET g == _assert_context(PRODUCT_SEARCH)
    IN  IF g.raised THEN InvalidContext("products_search_next", g)
        ELSE \E o \in search_next_page(pages[Page]) :
                 /\ pages' = [pages EXCEPT ![Page] = o.page]
                 /\ ReturnPaged("products_search_next", o, page_context)
                 /\ UNCHANGED <<cart, background_tasks, site_cart>>

recipes_get_details(index) ==
    LET url == get_recipe_url(pages[Page], index)
    IN  IF url = EmptyUrl
        THEN /\ last' = Raised("recipes_get_details", "ValueError",
                               "Could not resolve recipe index")
             /\ UNCHANGED <<page_context, cart, valid_urls, background_tasks,
                            pages, site_cart, issued>>
        ELSE \E g \in goto(pages[DetailPage], url, site_cart) :
             \E found \in scrape_recipe_details(g.page) :
                 /\ pages' = [pages EXCEPT ![DetailPage] = g.page]
                 /\ IF ~g.ok
                    THEN /\ last' = Raised("recipes_get_details", "Error", "")
                         /\ UNCHANGED page_context
                    ELSE IF ~found
                    THEN /\ last' = Raised("recipes_get_details", "ValueError",
                                           "Could not find Recipe JSON-LD")
                         /\ UNCHANGED page_context
                    ELSE /\ last' = Returned("recipes_get_details")
                         /\ page_context' = _set_context(page_context, RECIPE_INFO)
                 /\ UNCHANGED <<cart, valid_urls, background_tasks, site_cart,
                                issued>>

Portions == {2, 4}

recipe_add_to_cart(portions) ==
    LET g == _assert_context(RECIPE_INFO)
    IN  IF g.raised THEN InvalidContext("recipe_add_to_cart", g)
        ELSE \E o \in add_current_recipe(pages[DetailPage], portions, site_cart) :
                 /\ site_cart' = o.site
                 /\ IF o.ret = "true"
                    THEN /\ Outstanding < MaxTasks
                         /\ background_tasks' =
                                _fire_and_forget_refresh(background_tasks)
                         /\ last' = StepRec("recipe_add_to_cart", "ok", "",
                                            o.clicked, o.response)
                    ELSE /\ last' = StepRec("recipe_add_to_cart", "RuntimeError",
                                            "Failed to add recipe", o.clicked,
                                            NoResponse)
                         /\ UNCHANGED background_tasks
                 /\ UNCHANGED <<page_context, cart, valid_urls, pages, issued>>

recipes_search ==
    \E o \in search_recipes(pages[Page], site_cart) :
        /\ pages' = [pages EXCEPT ![Page] = o.page]
        /\ IF o.ok
           THEN ReturnPage("recipes_search", o.result,
                           _set_context(page_context, RECIPE_SEARCH))
           ELSE /\ last' = Raised("recipes_search", "Error", "")
                /\ UNCHANGED <<page_context, valid_urls, issued>>
        /\ UNCHANGED <<cart, background_tasks, site_cart>>

FilterRequests == {<<>>, <<"kjapp">>, <<"ukjent", "kjapp">>}

recipes_search_filter(filter_ids) ==
    LET g == _assert_context(RECIPE_SEARCH)
    IN  IF g.raised THEN InvalidContext("recipes_search_filter", g)
        ELSE \E o \in search_recipes_filter(pages[Page], filter_ids) :
                 /\ ReturnPage("recipes_search_filter", o.result, page_context)
                 /\ UNCHANGED <<cart, background_tasks, pages, site_cart>>

recipes_search_next ==
    LET g == _assert_context(RECIPE_SEARCH)
    IN  IF g.raised THEN InvalidContext("recipes_search_next", g)
        ELSE \E o \in search_recipes_next(pages[Page]) :
                 /\ pages' = [pages EXCEPT ![Page] = o.page]
                 /\ ReturnPaged("recipes_search_next", o, page_context)
                 /\ UNCHANGED <<cart, background_tasks, site_cart>>

\* ---------------------------------------------------------- _refresh_cart
\* The task runs between its awaits; the awaits that touch nothing but the
\* task's own page are taken together with the step next to them.
\*
\* bg_page = await browser.new_page(), which may raise and end the task; then
\* tools.get_cart_contents on the refresh page.  When that raises, the
\* finally clause closes bg_page and the task is done: the exception stays in
\* the task object, which nothing awaits, and last records it as the outcome of
\* _refresh_cart, an operation no caller invoked.
refresh_scrape(task) ==
    /\ task.pc = "created"
    /\ \/ /\ background_tasks' = Replaced(background_tasks, task, EmptyBag)
          /\ last' = Raised("_refresh_cart", "Error", "")
          /\ UNCHANGED pages
       \/ LET target == RefreshPage(BgPage)
              shown == IF target = BgPage THEN BlankPage ELSE pages[target]
          IN  \E o \in get_cart_contents(shown, site_cart) :
                  /\ pages' = IF target = BgPage THEN pages
                              ELSE [pages EXCEPT ![target] = o.page]
                  /\ background_tasks' =
                         Replaced(background_tasks, task,
                                  IF o.ok
                                  THEN SetToBag({Task("scraped",
                                                      IF target = BgPage
                                                      THEN o.page ELSE BlankPage,
                                                      o.items)})
                                  ELSE EmptyBag)
                  /\ last' = IF o.ok THEN Returned("_refresh_cart")
                             ELSE Raised("_refresh_cart", "Error", "")
    /\ UNCHANGED <<page_context, cart, valid_urls, site_cart, issued>>

\* ctx.request_context.lifespan_context["cart"] = cart_items; finally: await
\* bg_page.close(); the done callback discards the task.
refresh_finish(task) ==
    /\ task.pc = "scraped"
    /\ cart' = StoreCart(cart, task.cart_items)
    /\ background_tasks' = Replaced(background_tasks, task, EmptyBag)
    /\ last' = Returned("_refresh_cart")
    /\ UNCHANGED <<page_context, valid_urls, pages, site_cart, issued>>

\* The URLs a caller may hand to go_back.
GoBackUrls ==
    {CartUrl, RecipeSearchUrl, RecipeUrl, LoginUrl}
    \cup {ProductSearchUrl(q) : q \in Queries}

\* The refresh tasks take their steps whatever the caller does.
Refresh ==
    \/ \E task \in BagToSet(background_tasks) : refresh_scrape(task)
    \/ \E task \in BagToSet(background_tasks) : refresh_finish(task)

\* Every handler runs from its call to its return in one step.
Next ==
    \/ cart_get_contents /\ UNCHANGED caller
    \/ \E index \in Indices : cart_remove_item(index) /\ UNCHANGED caller
    \/ \E url \in GoBackUrls : go_back(url) /\ UNCHANGED caller
    \/ \E index \in Indices : product_add_to_cart(index) /\ UNCHANGED caller
    \/ \E query \in Queries : products_search(query) /\ UNCHANGED caller
    \/ products_search_next /\ UNCHANGED caller
    \/ \E index \in Indices : recipes_get_details(index) /\ UNCHANGED caller
    \/ \E portions \in Portions : recipe_add_to_cart(portions)
                                   /\ UNCHANGED caller
    \/ recipes_search /\ UNCHANGED caller
    \/ \E filter_ids \in FilterRequests :
           recipes_search_filter(filter_ids) /\ UNCHANGED caller
    \/ recipes_search_next /\ UNCHANGED caller
    \/ \E task \in BagToSet(background_tasks) :
           refresh_scrape(task) /\ UNCHANGED caller
    \/ \E task \in BagToSet(background_tasks) :
           refresh_finish(task) /\ UNCHANGED caller

Spec == Init /\ [][Next]_vars

\* ------------------------------------------------------------------ shutdown
\* _run: mcp.run_stdio_async() has returned or raised and the finally clause
\* runs "await browser.close()", its only statement.  It does not look at
\* background_tasks: the tasks in it stay as they are, neither cancelled nor
\* awaited.
browser_close ==
    /\ last.op \notin {"browser.close", "asyncio.run"}
    /\ last' = Returned("browser.close")
    /\ UNCHANGED <<page_context, cart, valid_urls, background_tasks, pages,
                   site_cart, issued, caller>>

\* main: asyncio.run(_run(...)).  Once the coroutine _run has returned, that
\* is after browser.close(), asyncio.run cancels the tasks its loop still
\* holds and runs them to their end; the done callback of each discards it
\* from background_tasks.
asyncio_run ==
    /\ last.op = "browser.close"
    /\ background_tasks' = EmptyBag
    /\ last' = Returned("asyncio.run")
    /\ UNCHANGED <<page_context, cart, valid_urls, pages, site_cart, issued,
                   caller>>

\* The server serves requests until it shuts down.
Serving == last.op \notin {"browser.close", "asyncio.run"} /\ Next

RunNext ==
    \/ Serving
    \/ browser_close
    \/ asyncio_run

RunSpec == Init /\ [][RunNext]_vars

\* -------------------------------------------------------------------- views
\* The default in place of the snapshot.
GetCartDefault(snapshot) == <<>>

\* lifespan.get("cart", []): the session is set up, the key is there.
GetCart(snapshot) == snapshot

\* The resource functions context() and cart(): plain reads of the session
\* dictionary.  The caller holds the value it was given until it drops it.
context ==
    /\ caller.pc = "any"
    /\ caller' = Caller({}, "context", <<>>, page_context)
    /\ UNCHANGED <<page_context, cart, valid_urls, background_tasks, pages,
                   site_cart, last, issued>>

cart_view ==
    /\ caller.pc = "any"
    /\ caller' = Caller({}, "cart", <<>>, GetCart(cart))
    /\ UNCHANGED <<page_context, cart, valid_urls, background_tasks, pages,
                   site_cart, last, issued>>

drop_view ==
    /\ caller.pc \in {"context", "cart"}
    /\ caller' = AnyCaller
    /\ UNCHANGED <<page_context, cart, valid_urls, background_tasks, pages,
                   site_cart, last, issued>>

ViewNext ==
    \/ caller.pc = "any" /\ Next
    \/ context
    \/ cart_view
    \/ drop_view

ViewSpec == Init /\ [][ViewNext]_vars

\* --------------------------------------------------------- concurrent calls
\* The handlers are coroutines: a handler runs from its call to its first
\* await, which for product_add_to_cart lies after _assert_context, inside
\* _modify_cart, and goes on when the event loop resumes it.  Nothing in the
\* handlers, no lock and no queue, keeps a second call from starting while
\* the first is suspended.  Here the rest of a handler after its first await
\* is one step.
MaxInFlight == 2
FacadeCall(op, index) == [op |-> op, index |-> index]
Enter(call) ==
    /\ Cardinality(caller.in_flight) < MaxInFlight
    /\ call \notin caller.in_flight
    /\ caller' = [caller EXCEPT !.in_flight = @ \cup {call}]
    /\ UNCHANGED <<page_context, cart, valid_urls, background_tasks, pages,
                   site_cart, last, issued>>
Leave(call) ==
    /\ call \in caller.in_flight
    /\ caller' = [caller EXCEPT !.in_flight = @ \ {call}]

\* product_add_to_cart up to its first await: the guard raises, or the call
\* is in flight.
call_product_add_to_cart(index) ==
    LET g == _assert_context(PRODUCT_SEARCH)
    IN  IF g.raised
        THEN InvalidContext("product_add_to_cart", g) /\ UNCHANGED caller
        ELSE Enter(FacadeCall("product_add_to_cart", index))

\* The rest of it: _modify_cart on the primary page as it is by now.
resume_product_add_to_cart(index) ==
    /\ Leave(FacadeCall("product_add_to_cart", index))
    /\ ModifyCart("product_add_to_cart", index, ADD_TO_CART_LABEL,
                  "Failed to add product")

\* cart_get_contents and products_search have no guard.
call_cart_get_contents == Enter(FacadeCall("cart_get_contents", 0))
resume_cart_get_contents ==
    /\ Leave(FacadeCall("cart_get_contents", 0))
    /\ cart_get_contents

call_products_search == Enter(FacadeCall("products_search", 0))
resume_products_search ==
    /\ Leave(FacadeCall("products_search", 0))
    /\ \E query \in Queries : products_search(query)

ConcNext ==
    \/ \E index \in Indices : call_product_add_to_cart(index)
    \/ \E index \in Indices : resume_product_add_to_cart(index)
    \/ call_cart_get_contents
    \/ resume_cart_get_contents
    \/ call_products_search
    \/ resume_products_search
    \/ Refresh /\ UNCHANGED caller

ConcSpec == Init /\ [][ConcNext]_vars

\* ---------------------------------------------------------------- round trip
\* A caller that follows the script of test_search_and_add_to_cart: read the
\* cart, search, add the first result, read the cart, remove the line of the
\* product by the index that read gave it, read the cart.  It goes on only
\* when a call has returned normally.  The cart it starts from may hold the
\* product or another one.
OtherProduct == "ost"
TripCarts ==
    {<<>>, <<Line(OtherProduct, "1")>>, <<Line(Product, "1")>>,
     <<Line(OtherProduct, "many"), Line(Product, "many")>>}

TripInit ==
    /\ \E sc \in TripCarts : Started(sc)
    /\ caller = Caller({}, "start", <<>>, <<>>)

\* The caller after the call of this step: at pc when the call returned, with
\* the cart seen when the call was a read.
Then(pc, prior, seen) ==
    caller' = IF last'.outcome = "ok" THEN Caller({}, pc, prior, seen)
              ELSE Caller({}, "failed", caller.prior, caller.seen)

trip_read_first ==
    /\ caller.pc = "start"
    /\ cart_get_contents
    /\ Then("read", cart', cart')

trip_search ==
    /\ caller.pc = "read"
    /\ \E query \in Queries : products_search(query)
    /\ Then("searched", caller.prior, caller.seen)

trip_add ==
    /\ caller.pc = "searched"
    /\ product_add_to_cart(0)
    /\ Then("added", caller.prior, caller.seen)

trip_read_added ==
    /\ caller.pc = "added"
    /\ cart_get_contents
    /\ Then("read_added", caller.prior, cart')

trip_remove ==
    /\ caller.pc = "read_added"
    /\ \E k \in 1..Len(caller.seen) :
           /\ caller.seen[k].name = Product
           /\ cart_remove_item(caller.seen[k].index)
    /\ Then("removed", caller.prior, caller.seen)

trip_read_removed ==
    /\ caller.pc = "removed"
    /\ cart_get_contents
    /\ Then("read_removed", caller.prior, cart')

TripNext ==
    \/ trip_read_first
    \/ trip_search
    \/ trip_add
    \/ trip_read_added
    \/ trip_remove
    \/ trip_read_removed
    \/ Refresh /\ UNCHANGED caller

TripSpec == TripInit /\ [][TripNext]_vars

\* -------------------------------------------------------------- parse_price
\* A text is a sequence of characters; NBSP stands for U+00A0.  The texts
\* tried are every body of up to MaxText characters followed by one of the
\* endings a price on the site has, and the absent text.
MaxText == 3
NBSP == "nbsp"
Digits == {"0", "1", "5"}
Chars == Digits \cup {",", ".", " ", NBSP, "k", "r", "n", "a"}
Bodies == UNION {[1..n -> Chars] : n \in 0..MaxText}
Endings == {<<>>, <<"k", "r">>, <<" ", "k", "r">>, <<NBSP, "k", "r">>}
\* The argument of type "str | None": a string or None.
Text(chars) == [none |-> FALSE, chars |-> chars]
NoText == [none |-> TRUE, chars |-> <<>>]
PriceTexts == {NoText} \cup {Text(b \o e) : b \in Bodies, e \in Endings}

\* A float: a finite decimal value num / den, or the NaN that float() makes
\* of the text "nan".
Number(num, den) == [kind |-> "finite", num |-> num, den |-> den]
NaN == [kind |-> "nan", num |-> 0, den |-> 1]
SameNumber(a, b) ==
    /\ a.kind = b.kind
    /\ a.kind = "finite" => a.num * b.den = b.num * a.den

DigitValue(c) == CASE c = "0" -> 0 [] c = "1" -> 1 [] c = "5" -> 5
RECURSIVE ToNat(_, _)
ToNat(digits, acc) ==
    IF digits = <<>> THEN acc
    ELSE ToNat(Tail(digits), 10 * acc + DigitValue(Head(digits)))
RECURSIVE Pow10(_)
Pow10(n) == IF n = 0 THEN 1 ELSE 10 * Pow10(n - 1)

\* str.replace(old, new): the occurrences of old from the left, none
\* overlapping, what new brings in not searched again.
RECURSIVE Replace(_, _, _)
Replace(text, old, new) ==
    IF text = <<>> THEN <<>>
    ELSE IF Len(text) >= Len(old) /\ SubSeq(text, 1, Len(old)) = old
    THEN new \o Replace(SubSeq(text, Len(old) + 1, Len(text)), old, new)
    ELSE <<Head(text)>> \o Replace(Tail(text), old, new)

\* str.strip(): U+00A0 is white space to Python as the space is.
Whitespace == {" ", NBSP}
Strip(text) ==
    LET kept == {i \in 1..Len(text) : text[i] \notin Whitespace}
    IN  IF kept = {} THEN <<>>
        ELSE SubSeq(text, CHOOSE i \in kept : \A j \in kept : i <= j,
                    CHOOSE i \in kept : \A j \in kept : i >= j)

\* float(s) on the characters above: [raised, value].  It reads digits with at
\* most one point and at least one digit, and the word "nan"; anything else
\* is a ValueError.
float(s) ==
    LET points == {i \in 1..Len(s) : s[i] = "."}
        point == IF points = {} THEN Len(s) + 1 ELSE CHOOSE i \in points : TRUE
        whole == SubSeq(s, 1, point - 1)
        fraction == SubSeq(s, point + 1, Len(s))
    IN  IF s = <<"n", "a", "n">> THEN [raised |-> FALSE, value |-> NaN]
        ELSE IF \/ Cardinality(points) > 1
                \/ \E i \in 1..Len(s) : s[i] \notin Digits \cup {"."}
                \/ Len(s) = Cardinality(points)
        THEN [raised |-> TRUE, value |-> Number(0, 1)]
        ELSE [raised |-> FALSE,
              value |-> Number(ToNat(whole \o fraction, 0),
                               Pow10(Len(fraction)))]

\* The chain of replacements and the strip.
clean_text(text) ==
    Strip(Replace(Replace(Replace(Replace(text, <<"k", "r">>, <<>>),
                                  <<NBSP>>, <<>>),
                          <<" ">>, <<>>),
                  <<",">>, <<".">>))

\* parse_price: [raised, value].  "if not text" answers the absent and the
\* empty text; the ValueError of float() is caught.
parse_price(text) ==
    IF text.none \/ text.chars = <<>>
    THEN [raised |-> FALSE, value |-> Number(0, 1)]
    ELSE LET f == float(clean_text(text.chars))
         IN  IF f.raised THEN [raised |-> FALSE, value |-> Number(0, 1)]
             ELSE [raised |-> FALSE, value |-> f.value]

\* A caller of the parser alone: the session is not used.  The caller holds
\* the text it passes and then what it was given back.
NoSession ==
    /\ page_context = CART
    /\ cart = <<>>
    /\ valid_urls = {}
    /\ background_tasks = EmptyBag
    /\ pages = [p \in PageIds |-> BlankPage]
    /\ site_cart = <<>>
    /\ issued = {}

PriceInit ==
    /\ NoSession
    /\ last = Returned("_run")
    /\ \E text \in PriceTexts : caller = Caller({}, "parse_price", text, <<>>)

call_parse_price ==
    /\ caller.pc = "parse_price"
    /\ LET r == parse_price(caller.prior)
       IN  /\ caller' = Caller({}, "parsed", caller.prior, r.value)
           /\ last' = IF r.raised THEN Raised("parse_price", "Error", "")
                      ELSE Returned("parse_price")
    /\ UNCHANGED <<page_context, cart, valid_urls, background_tasks, pages,
                   site_cart, issued>>

PriceNext == call_parse_price

PriceSpec == PriceInit /\ [][PriceNext]_vars

\* ---------------------------------------------------------------- _navigate
\* One call of _navigate, await by await.  Here caller is the frame of the
\* call: where it stands (pc), its arguments, the page it started on, the
\* fingerprints it took, the polls it has made, and what it returns.  The
\* site puts the next content on the page at a moment of its own after the
\* click, or not while the call lasts.
MaxPolls == 2
Raise == "raise"

\* A comparison that always sees a change.
ChangedAlways(current_state, previous_state) == TRUE

\* "if current_state != previous_state: break"
Changed(current_state, previous_state) == current_state # previous_state

\* "(time() - start_time) < 5.0" is false: with a sleep of 0.2 s between two
\* polls the deadline has passed after a bounded number of them.
DeadlineElapsed(polls) == polls >= MaxPolls

\* _get_product_state and _get_recipe_state: the name of the first record of
\* a scrape, "" when it has none.
StateExtractor(scraper_func, pg) ==
    {IF r.items = <<>> THEN "" ELSE r.items[1].name
     : r \in Call(scraper_func, pg)}

Frame(pc, label, scraper_func, start) ==
    [pc |-> pc, label |-> label, scraper_func |-> scraper_func,
     start |-> start, previous_state |-> "", current_state |-> "",
     polls |-> 0, polled |-> FALSE, clicked |-> FALSE, cause |-> "",
     found |-> FALSE, result |-> NoResult]

\* "return None" through the except clause, and "return await scraper_func()".
ReturnNone(cause) ==
    caller' = [caller EXCEPT !.pc = "done", !.cause = cause]
ReturnScrape(r) ==
    caller' = [caller EXCEPT !.pc = "done", !.found = TRUE, !.result = r]

NavPages ==
    {BlankPage, Render(RecipeSearchUrl, <<>>)}
    \cup UNION {{Render(ProductSearchUrl(q), <<>>),
                 NextPage(Render(ProductSearchUrl(q), <<>>))} : q \in Queries}

NavInit ==
    /\ page_context = PRODUCT_SEARCH
    /\ cart = <<>>
    /\ valid_urls = {}
    /\ background_tasks = EmptyBag
    /\ site_cart = <<>>
    /\ issued = {}
    /\ last = Returned("_run")
    /\ \E pg \in NavPages :
       \E label \in {NEXT_PAGE, PREV_PAGE} :
       \E scraper_func \in {"_scrape_search_results", "_scrape_recipes_page"} :
           /\ pages = [p \in PageIds |-> IF p = Page THEN pg ELSE BlankPage]
           /\ caller = Frame("is_visible", label, scraper_func, pg)

NavFrame == UNCHANGED <<page_context, cart, valid_urls, background_tasks,
                        site_cart, last, issued>>

\* button.is_visible(): false, or it raises, and the call returns None; or
\* the control is there and the fingerprint is taken, "" when that raises.
nav_is_visible ==
    /\ caller.pc = "is_visible"
    /\ \/ ReturnNone("not visible")
       \/ /\ ControlTarget(pages[Page], caller.label) # NoPage
          /\ \E s \in StateExtractor(caller.scraper_func, pages[Page])
                      \cup {""} :
                 caller' = [caller EXCEPT !.pc = "click",
                                          !.previous_state = s]
    /\ UNCHANGED pages
    /\ NavFrame

\* button.click()
nav_click ==
    /\ caller.pc = "click"
    /\ \/ ReturnNone("click")
       \/ caller' = [caller EXCEPT !.pc = "wait_for_url", !.clicked = TRUE]
    /\ UNCHANGED pages
    /\ NavFrame

\* The site shows the page the control leads to.
site_advances ==
    /\ caller.clicked
    /\ caller.pc # "done"
    /\ pages[Page] = caller.start
    /\ pages' = [pages EXCEPT ![Page] = ControlTarget(caller.start,
                                                      caller.label)]
    /\ UNCHANGED caller
    /\ NavFrame

\* page.wait_for_url(...), timeout 5000: the URL has changed, or the wait
\* raises and the exception is logged.
nav_wait_for_url ==
    /\ caller.pc = "wait_for_url"
    /\ caller' = [caller EXCEPT !.pc = "networkidle"]
    /\ UNCHANGED pages
    /\ NavFrame

\* page.wait_for_load_state("networkidle"), not inside a try of its own.
nav_networkidle ==
    /\ caller.pc = "networkidle"
    /\ \/ ReturnNone("networkidle")
       \/ caller' = [caller EXCEPT
                         !.pc = IF caller.previous_state # "" THEN "poll"
                                ELSE "grace"]
    /\ UNCHANGED pages
    /\ NavFrame

\* One turn of the polling loop: the deadline has passed (the else clause of
\* the while), or the fingerprint is read: it raises and the loop is left, it
\* differs and the loop is left, or the loop sleeps and goes round.
nav_poll ==
    /\ caller.pc = "poll"
    /\ IF DeadlineElapsed(caller.polls)
       THEN caller' = [caller EXCEPT !.pc = "grace", !.cause = "deadline"]
       ELSE \E s \in StateExtractor(caller.scraper_func, pages[Page])
                      \cup {Raise} :
                caller' =
                    IF s = Raise
                    THEN [caller EXCEPT !.pc = "grace", !.polled = TRUE,
                                        !.cause = "poll error"]
                    ELSE IF Changed(s, caller.previous_state)
                    THEN [caller EXCEPT !.pc = "grace", !.polled = TRUE,
                                        !.current_state = s,
                                        !.cause = "changed"]
                    ELSE [caller EXCEPT !.polls = @ + 1, !.polled = TRUE,
                                        !.current_state = s]
    /\ UNCHANGED pages
    /\ NavFrame

\* page.wait_for_timeout(500), which may raise, and scraper_func().
nav_scrape ==
    /\ caller.pc = "grace"
    /\ \/ ReturnNone("grace")
       \/ \E r \in Call(caller.scraper_func, pages[Page]) : ReturnScrape(r)
    /\ UNCHANGED pages
    /\ NavFrame

NavStep ==
    \/ nav_is_visible
    \/ nav_click
    \/ nav_wait_for_url
    \/ nav_networkidle
    \/ nav_poll
    \/ nav_scrape

NavNext ==
    \/ NavStep
    \/ site_advances

\* Every await of the call is bounded by a timeout, so the call goes on.
NavSpec == NavInit /\ [][NavNext]_vars /\ WF_vars(NavStep)

\* ------------------------------------------------------ recipe JSON-LD blocks
\* The script elements of type application/ld+json of a recipe page, in
\* document order.  A block is its text: empty, text that is no JSON, or a
\* JSON value: an array, or an object with its "@type" ("" when it has none),
\* its "name" and its "@graph": absent, a list of entries, or one node
\* object, which JSON-LD allows in place of a list.  An entry of a list is an
\* object with a type and a name, or a value that is no object.
MaxBlocks == 2

Node(type, name) == [object |-> TRUE, type |-> type, name |-> name]
Scalar == [object |-> FALSE, type |-> "", name |-> ""]
NoGraph == [is |-> "absent", items |-> <<>>]
GraphList(items) == [is |-> "list", items |-> items]
GraphNode == [is |-> "node", items |-> <<>>]

EmptyBlock == [kind |-> "empty", type |-> "", name |-> "", graph |-> NoGraph]
InvalidBlock == [kind |-> "invalid", type |-> "", name |-> "", graph |-> NoGraph]
ArrayBlock == [kind |-> "array", type |-> "", name |-> "", graph |-> NoGraph]
ObjectBlock(type, name, graph) ==
    [kind |-> "object", type |-> type, name |-> name, graph |-> graph]

Blocks ==
    {EmptyBlock, InvalidBlock, ArrayBlock,
     ObjectBlock("WebSite", "oda", NoGraph),
     ObjectBlock("Recipe", "pizza", NoGraph),
     ObjectBlock("Recipe", "taco", GraphList(<<Node("Recipe", "suppe")>>)),
     ObjectBlock("", "", GraphList(<<>>)),
     ObjectBlock("", "", GraphList(<<Node("WebSite", "oda"),
                                     Node("Recipe", "suppe"),
                                     Node("Recipe", "kake")>>)),
     ObjectBlock("", "", GraphList(<<Scalar, Node("Recipe", "suppe")>>)),
     ObjectBlock("", "", GraphList(<<Node("Recipe", "kake"), Scalar>>)),
     ObjectBlock("", "", GraphNode)}

BlockLists == UNION {[1..n -> Blocks] : n \in 0..MaxBlocks}

Found(value) == [raised |-> "", found |-> TRUE, name |-> value.name]
NotFound == [raised |-> "", found |-> FALSE, name |-> ""]
Failed(error) == [raised |-> error, found |-> FALSE, name |-> ""]

\* The loop over data["@graph"] from entry i on: item.get("@type") on a value
\* that is no object raises AttributeError.
RECURSIVE FindInGraph(_, _)
FindInGraph(items, i) ==
    IF i > Len(items) THEN NotFound
    ELSE IF ~items[i].object THEN Failed("AttributeError")
    ELSE IF items[i].type = "Recipe" THEN Found(items[i])
    ELSE FindInGraph(items, i + 1)

\* _find_recipe_in_json_ld(data).  Iterating a "@graph" that is one node
\* object yields its keys, strings, and the first item.get raises.
_find_recipe_in_json_ld(data) ==
    IF data.kind = "object" /\ data.type = "Recipe" THEN Found(data)
    ELSE IF data.kind = "object" /\ data.graph.is = "list"
    THEN FindInGraph(data.graph.items, 1)
    ELSE IF data.kind = "object" /\ data.graph.is = "node"
    THEN Failed("AttributeError")
    ELSE NotFound

\* The loop of _parse_recipe_json_ld from block i on: a block without
\* content is passed over, json.loads raising JSONDecodeError is suppressed,
\* any other exception leaves the call; the first Recipe found ends the loop,
\* and without one the call raises ValueError.
RECURSIVE ParseBlocks(_, _)
ParseBlocks(scripts, i) ==
    IF i > Len(scripts) THEN Failed("ValueError")
    ELSE IF scripts[i].kind \in {"empty", "invalid"}
    THEN ParseBlocks(scripts, i + 1)
    ELSE LET r == _find_recipe_in_json_ld(scripts[i])
         IN  IF r.raised # "" \/ r.found THEN r
             ELSE ParseBlocks(scripts, i + 1)

_parse_recipe_json_ld(scripts) == ParseBlocks(scripts, 1)

JsonInit ==
    /\ NoSession
    /\ last = Returned("_run")
    /\ \E scripts \in BlockLists :
           caller = Caller({}, "_parse_recipe_json_ld", scripts, <<>>)

call_parse_recipe_json_ld ==
    /\ caller.pc = "_parse_recipe_json_ld"
    /\ LET r == _parse_recipe_json_ld(caller.prior)
       IN  /\ caller' = Caller({}, "parsed", caller.prior, r)
           /\ last' = IF r.raised # ""
                      THEN Raised("_parse_recipe_json_ld", r.raised, "")
                      ELSE Returned("_parse_recipe_json_ld")
    /\ UNCHANGED <<page_context, cart, valid_urls, background_tasks, pages,
                   site_cart, issued>>

JsonNext == call_parse_recipe_json_ld

JsonSpec == JsonInit /\ [][JsonNext]_vars

\* ------------------------------------------------------ recipe listing links
\* The recipe listing with any links a[href^="/no/recipes/"] can match, in
\* DOM order: a link without href value, the listing's own links, a provider
\* link, recipes, repeated or not.  One call is made on it: the scrape, the
\* resolution of an index, or recipes_get_details.
MaxLinks == 3

LinkUrls ==
    {EmptyUrl, <<"no", "recipes">>, RecipeSearchUrl,
     <<"no", "recipes", "provider", "12">>, RecipeUrl, <<"no", "recipes", "12">>}

LinkLists == UNION {[1..n -> LinkUrls] : n \in 0..MaxLinks}

LinkInit ==
    /\ page_context = RECIPE_SEARCH
    /\ cart = <<>>
    /\ valid_urls = {RecipeSearchUrl}
    /\ background_tasks = EmptyBag
    /\ site_cart = <<>>
    /\ issued = {RecipeSearchUrl}
    /\ last = Returned("recipes_search")
    /\ caller = Caller({}, "links", <<>>, <<>>)
    /\ \E links \in LinkLists :
           pages = [p \in PageIds |->
                       IF p = Page
                       THEN [url |-> RecipeSearchUrl, articles |-> <<>>,
                             links |-> links]
                       ELSE BlankPage]

LinkFrame == UNCHANGED <<page_context, cart, valid_urls, background_tasks,
                         pages, site_cart, issued, last>>

call_scrape_recipes ==
    /\ caller.pc = "links"
    /\ \E items \in _scrape_recipes(pages[Page]) :
           caller' = Caller({}, "_scrape_recipes", <<>>, items)
    /\ LinkFrame

call_get_recipe_url ==
    /\ caller.pc = "links"
    /\ \E index \in Indices :
           caller' = Caller({}, "get_recipe_url", index,
                            get_recipe_url(pages[Page], index))
    /\ LinkFrame

call_recipes_get_details ==
    /\ caller.pc = "links"
    /\ \E index \in Indices :
           /\ recipes_get_details(index)
           /\ caller' = Caller({}, "recipes_get_details", index, <<>>)

LinkNext ==
    \/ call_scrape_recipes
    \/ call_get_recipe_url
    \/ call_recipes_get_details

LinkSpec == LinkInit /\ [][LinkNext]_vars

\* ------------------------------------------------------ search_recipes_filter
\* One call of search_recipes_filter, id by id.  Here caller is the frame of
\* the call: the ids asked for, the position i of the loop, the checkboxes
\* checked on the page, what became of every id so far (log), and the scrape
\* returned.
MaxFilterIds == 3

RequestedIds == {"kjapp", "ukjent"}
FilterIdLists == UNION {[1..n -> RequestedIds] : n \in 0..MaxFilterIds}

\* A failure that ends the loop.
AfterFailureStop(i, n) == n + 1

\* "except Exception: logger.warning(...)" inside the for: the next id.
AfterFailure(i, n) == i + 1

\* The checkbox toggled.
Toggle(checked, fid) ==
    IF fid \in checked THEN checked \ {fid} ELSE checked \cup {fid}

FilterFrame(filter_ids, start) ==
    [pc |-> "for", filter_ids |-> filter_ids, i |-> 1, start |-> start,
     checked |-> {}, log |-> <<>>, result |-> NoResult]

FilterInit ==
    /\ page_context = RECIPE_SEARCH
    /\ cart = <<>>
    /\ valid_urls = {RecipeSearchUrl}
    /\ background_tasks = EmptyBag
    /\ site_cart = <<>>
    /\ issued = {RecipeSearchUrl}
    /\ last = Returned("recipes_search")
    /\ \E pg \in {Render(RecipeSearchUrl, <<>>), Render(LoginUrl, <<>>)} :
       \E filter_ids \in FilterIdLists :
           /\ pages = [p \in PageIds |-> IF p = Page THEN pg ELSE BlankPage]
           /\ caller = FilterFrame(filter_ids, pg)

\* One turn of the for: the checkbox is not visible and a warning is logged;
\* is_visible or click raises; the click toggles the checkbox and a wait
\* after it raises; or the click and the waits pass.
filter_toggle ==
    /\ caller.pc = "for"
    /\ caller.i <= Len(caller.filter_ids)
    /\ LET fid == caller.filter_ids[caller.i]
           n == Len(caller.filter_ids)
           turn(outcome, checked, next) ==
               [caller EXCEPT !.i = next, !.checked = checked,
                              !.log = Append(@, [fid |-> fid,
                                                 outcome |-> outcome])]
       IN  \/ caller' = turn("raised", caller.checked,
                             AfterFailure(caller.i, n))
           \/ /\ fid \notin FilterIds(pages[Page])
              /\ caller' = turn("not found", caller.checked, caller.i + 1)
           \/ /\ fid \in FilterIds(pages[Page])
              /\ \/ caller' = turn("clicked", Toggle(caller.checked, fid),
                                   caller.i + 1)
                 \/ caller' = turn("raised", Toggle(caller.checked, fid),
                                   AfterFailure(caller.i, n))
    /\ UNCHANGED <<page_context, cart, valid_urls, background_tasks, pages,
                   site_cart, issued, last>>

\* "return await self._scrape_recipes_page()" after the loop.
filter_scrape ==
    /\ caller.pc = "for"
    /\ caller.i > Len(caller.filter_ids)
    /\ \E r \in _scrape_recipes_page(pages[Page]) :
           /\ caller' = [caller EXCEPT !.pc = "done", !.result = r]
           /\ last' = Returned("search_recipes_filter")
    /\ UNCHANGED <<page_context, cart, valid_urls, background_tasks, pages,
                   site_cart, issued>>

FilterNext ==
    \/ filter_toggle
    \/ filter_scrape

\* Every await of the loop is bounded by a timeout, so the call goes on.
FilterSpec == FilterInit /\ [][FilterNext]_vars /\ WF_vars(FilterNext)

\* ------------------------------------------------- refreshes side by side
\* A session on the cart page whose caller removes lines and reads the cart
\* while the refresh tasks of the removals run, several at a time.  Here
\* caller counts the removals that succeeded and remembers whether a refresh
\* has failed.
MaxRefreshes == 2

RaceCaller(mutations, failed) == [mutations |-> mutations, failed |-> failed]

RaceInit ==
    /\ \E sc \in {<<Line(Product, "1")>>,
                   <<Line(OtherProduct, "1"), Line(Product, "1")>>} :
           Started(sc)
    /\ caller = RaceCaller(0, FALSE)

race_cart_get_contents ==
    /\ cart_get_contents
    /\ UNCHANGED caller

race_cart_remove_item ==
    \E index \in 0..MaxIndex :
        LET g == _assert_context(CART)
        IN  /\ IF g.raised THEN InvalidContext("cart_remove_item", g)
               ELSE ModifyCartWithin("cart_remove_item", index,
                                     REMOVE_FROM_CART_LABEL,
                                     "Failed to remove item", MaxRefreshes)
            /\ caller' = IF last'.outcome = "ok"
                         THEN RaceCaller(caller.mutations + 1, caller.failed)
                         ELSE caller

race_refresh ==
    /\ Refresh
    /\ caller' = RaceCaller(caller.mutations,
                            caller.failed \/ last'.outcome # "ok")

RaceNext ==
    \/ race_cart_get_contents
    \/ race_cart_remove_item
    \/ race_refresh

RaceSpec == RaceInit /\ [][RaceNext]_vars

\* ------------------------------------------------------------------ claims
\* The frame of a step that performs no browser action and writes no session
\* state.
NothingDone ==
    UNCHANGED <<page_context, cart, valid_urls, background_tasks, pages,
                site_cart>>

GatedOps ==
    {"cart_remove_item", "product_add_to_cart", "products_search_next",
     "recipes_search_filter", "recipes_search_next", "recipe_add_to_cart"}
Required(op) ==
    CASE op = "cart_remove_item" -> CART
      [] op \in {"product_add_to_cart", "products_search_next"} -> PRODUCT_SEARCH
      [] op \in {"recipes_search_filter", "recipes_search_next"} -> RECIPE_SEARCH
      [] op = "recipe_add_to_cart" -> RECIPE_INFO

\* C1: a state-gated operation called in a context other than the one it
\* requires fails with the precondition error, which names the expected and
\* the actual context, and does nothing else: no page is touched, the site's
\* cart, the context, the cart snapshot, the allow-list and the background
\* tasks are as before.
C1_GuardFailsPurely ==
    [][\A op \in GatedOps :
          (last'.op = op /\ page_context # Required(op)) =>
              /\ last'.outcome = "ValueError"
              /\ last'.error = "Invalid page context"
              /\ last'.expected = Required(op)
              /\ last'.actual = page_context
              /\ NothingDone]_vars

\* A recipe-search-only operation has just been refused in context CART.
C1_Witness ==
    /\ last.op = "recipes_search_next"
    /\ last.outcome = "ValueError"
    /\ last.expected = RECIPE_SEARCH
    /\ last.actual = CART
    /\ page_context = CART

ContextSetters ==
    {"products_search", "recipes_search", "recipes_get_details",
     "cart_get_contents"}
Entered(op) ==
    CASE op = "products_search" -> PRODUCT_SEARCH
      [] op = "recipes_search" -> RECIPE_SEARCH
      [] op = "recipes_get_details" -> RECIPE_INFO
      [] op = "cart_get_contents" -> CART

\* C2: a successful products_search, recipes_search, recipes_get_details or
\* cart_get_contents sets the context to its own state whatever the context
\* was; the same call, when it raises, leaves the context as it was; and the
\* pagination, filter and cart-mutation operations never change the context.
C2_ContextFollowsSuccess ==
    [][/\ \A op \in ContextSetters :
              last'.op = op =>
                  page_context' = IF last'.outcome = "ok" THEN Entered(op)
                                  ELSE page_context
       /\ last'.op \in GatedOps => page_context' = page_context]_vars

\* A cart read has failed after it had taken the primary page to the cart:
\* the context is still the product search's.
C2_Witness ==
    /\ last.op = "cart_get_contents"
    /\ last.outcome # "ok"
    /\ pages[Page].url = CartUrl
    /\ page_context = PRODUCT_SEARCH

\* C3: go_back with a URL that is not in the allow-list raises the
\* "Untrusted URL" error and navigates nothing: the pages, the context and
\* the allow-list are as before.
C3_UntrustedUrlRejected ==
    [][\A url \in GoBackUrls :
          (last'.op = "go_back" /\ url \notin valid_urls /\ go_back(url)) =>
              /\ last'.outcome = "ValueError"
              /\ last'.error = "Untrusted URL"
              /\ NothingDone]_vars

\* go_back has just refused a URL while the allow-list holds another.
C3_Witness ==
    /\ last.op = "go_back"
    /\ last.error = "Untrusted URL"
    /\ valid_urls # {}
    /\ \E url \in GoBackUrls : url \notin valid_urls

\* The rule of the URL's shape, as the specification words it.
ShapeContext(url, current) ==
    IF Contains(url, <<"cart">>) THEN CART
    ELSE IF Contains(url, <<"search", "products">>) THEN PRODUCT_SEARCH
    ELSE IF Contains(url, <<"recipes", "all">>) THEN RECIPE_SEARCH
    ELSE IF Contains(url, <<"recipes">>) THEN RECIPE_INFO
    ELSE current

\* C4: a go_back to an allow-listed URL that navigates successfully sets the
\* context by the first rule the URL matches, in the order cart, product
\* search, recipe listing, recipe; a URL that matches none leaves the context
\* as it was, and a URL of the recipe listing never gives RECIPE_INFO.  The
\* classification itself is compared with the rule on every URL a caller may
\* hand in, a recipe page's URL among them.
C4_GoBackContextByShape ==
    /\ [](\A url \in GoBackUrls :
            _determine_context_from_url(url) = ShapeContext(url, None))
    /\ [][\A url \in GoBackUrls :
             (/\ last'.op = "go_back" /\ last'.outcome = "ok"
              /\ url \in valid_urls /\ go_back(url)) =>
                 /\ page_context' = ShapeContext(url, page_context)
                 /\ Contains(url, <<"recipes", "all">>)
                        => page_context' # RECIPE_INFO]_vars

\* go_back has just returned the primary page to the recipe listing.
C4_Witness ==
    /\ last.op = "go_back"
    /\ last.outcome = "ok"
    /\ pages[Page].url = RecipeSearchUrl
    /\ page_context = RECIPE_SEARCH
    /\ pages[DetailPage].url = RecipeUrl

\* C5: the allow-list is exactly the set of non-empty page URLs the search,
\* pagination and filter calls have returned, and no step removes a URL
\* from it.
C5_AllowListIsIssuedUrls ==
    /\ [](valid_urls = issued \ {EmptyUrl})
    /\ [][valid_urls \subseteq valid_urls']_vars

\* go_back has just succeeded with three URLs on the allow-list.
C5_Witness ==
    /\ last.op = "go_back"
    /\ last.outcome = "ok"
    /\ Cardinality(valid_urls) >= 3

\* C6: product_add_to_cart(index), for an index a scrape of the page shown
\* gives to a SearchResult, clicks the control of the card that SearchResult
\* was extracted from, also when the scrape has skipped cards.
C6_ClicksTheResultCard ==
    [][\A index \in Indices :
          LET origins == ScrapeOrigins(pages[Page].articles, 1, <<>>)
          IN  (/\ last'.op = "product_add_to_cart"
               /\ page_context = PRODUCT_SEARCH
               /\ index \in 0..(Len(origins) - 1)
               /\ product_add_to_cart(index)
               /\ last'.clicked # -1) =>
                  last'.clicked = origins[index + 1]]_vars

CartMutators == {"cart_remove_item", "product_add_to_cart", "recipe_add_to_cart"}

\* C7: a cart mutation with an index at or beyond the number of article
\* elements returns False without a click at the client and fails with the
\* operation's own RuntimeError at the facade, which does nothing else; no
\* IndexError comes out of it.
C7_IndexBeyondEndFails ==
    /\ [](\A index \in Indices :
            \A label \in {ADD_TO_CART_LABEL, REMOVE_FROM_CART_LABEL} :
                index >= Len(pages[Page].articles) =>
                    \A o \in _modify_cart(pages[Page], index, label, site_cart) :
                        /\ o.ret = "false"
                        /\ o.clicked = -1
                        /\ o.site = site_cart)
    /\ [][\A index \in Indices :
             (/\ last'.op \in {"cart_remove_item", "product_add_to_cart"}
              /\ page_context = Required(last'.op)
              /\ index >= Len(pages[Page].articles)
              /\ IF last'.op = "cart_remove_item"
                 THEN cart_remove_item(index)
                 ELSE product_add_to_cart(index)) =>
                 /\ last'.outcome = "RuntimeError"
                 /\ last'.error \in {"Failed to remove item",
                                     "Failed to add product"}
                 /\ last'.clicked = -1
                 /\ NothingDone]_vars

\* product_add_to_cart has just failed on a page without articles, where
\* every index from 0 on is beyond the end.
C7_Witness ==
    /\ last.op = "product_add_to_cart"
    /\ last.outcome = "RuntimeError"
    /\ last.error = "Failed to add product"
    /\ last.clicked = -1
    /\ pages[Page].articles = <<>>

\* A response that counts as the cart's confirmation, as the specification
\* words it.
Confirms(r) == r.cart_items /\ r.status \in {200, 201, 204}

\* C8: add_to_cart, remove_from_cart and add_current_recipe return True only
\* after a click that a response from the cart-items endpoint with status
\* 200, 201 or 204 has followed, and a facade cart mutation that returned
\* normally has seen such a click and such a response.
C8_SuccessNeedsConfirmation ==
    /\ \A index \in Indices :
           \A label \in {ADD_TO_CART_LABEL, REMOVE_FROM_CART_LABEL} :
               \A o \in _modify_cart(pages[Page], index, label, site_cart) :
                   o.ret = "true" => o.clicked # -1 /\ Confirms(o.response)
    /\ \A portions \in Portions :
           \A o \in add_current_recipe(pages[DetailPage], portions, site_cart) :
               o.ret = "true" => o.clicked # -1 /\ Confirms(o.response)
    /\ (last.op \in CartMutators /\ last.outcome = "ok") =>
           last.clicked # -1 /\ Confirms(last.response)

\* recipe_add_to_cart has just succeeded on a response with status 204.
C8_Witness ==
    /\ last.op = "recipe_add_to_cart"
    /\ last.outcome = "ok"
    /\ last.clicked # -1
    /\ last.response = Response(TRUE, 204)

\* C9: a cart-mutating facade call that returns normally has added exactly
\* one refresh task to the background tasks; one that raises has added none.
C9_OneRefreshPerSuccess ==
    [][last'.op \in CartMutators =>
          IF last'.outcome = "ok"
          THEN /\ background_tasks' = background_tasks (+) SetToBag({NewTask})
               /\ BagCardinality(background_tasks') =
                      BagCardinality(background_tasks) + 1
          ELSE background_tasks' = background_tasks]_vars

\* cart_remove_item has just succeeded and its refresh task has not started.
C9_Witness ==
    /\ last.op = "cart_remove_item"
    /\ last.outcome = "ok"
    /\ BagIn(NewTask, background_tasks)

\* C10: a step of a background refresh leaves the primary page, the detail
\* page, the context and the allow-list as they were (it works on its own
\* bg_page) and writes no session state but the cart snapshot.
C10_RefreshKeepsToItsPage ==
    [][last'.op = "_refresh_cart" =>
          /\ UNCHANGED <<page_context, valid_urls, pages, site_cart>>
          /\ \A task \in BagToSet(background_tasks') :
                 task.pc = "scraped" => task.bg_page.url = CartUrl]_vars

\* A refresh has just scraped the cart on its bg_page while the primary page
\* shows product results.
C10_Witness ==
    /\ last.op = "_refresh_cart"
    /\ \E task \in BagToSet(background_tasks) :
           task.pc = "scraped" /\ task.bg_page.url = CartUrl
    /\ pages[Page].url \in {ProductSearchUrl(q) : q \in Queries}
    /\ page_context = PRODUCT_SEARCH

\* C11: a refresh that succeeds replaces the cached cart snapshot by exactly
\* the list it read, whatever the snapshot held; a refresh that fails ends as a
\* step of _refresh_cart itself, so its error is the outcome of no facade
\* operation, and it leaves the snapshot and all other session state as they
\* were, removing only its own task.
C11_RefreshOverwritesOrLeaves ==
    [][last'.op = "_refresh_cart" =>
          IF last'.outcome # "ok"
          THEN /\ UNCHANGED <<page_context, cart, valid_urls, pages,
                              site_cart, issued>>
               /\ \E task \in BagToSet(background_tasks) :
                      /\ task.pc = "created"
                      /\ background_tasks' =
                             Replaced(background_tasks, task, EmptyBag)
          ELSE \/ /\ Outstanding' = Outstanding
                  /\ cart' = cart
               \/ \E task \in BagToSet(background_tasks) :
                      /\ task.pc = "scraped"
                      /\ cart' = task.cart_items
                      /\ background_tasks' =
                             Replaced(background_tasks, task, EmptyBag)]_vars

\* A refresh has just failed while the snapshot is out of date.
C11_Witness ==
    /\ last.op = "_refresh_cart"
    /\ last.outcome # "ok"
    /\ Len(cart) # Len(site_cart)

\* C12: when the browser is closed at shutdown, no refresh task is still
\* outstanding: each has been cancelled and awaited before.
C12_NoTaskOutlivesBrowser ==
    last.op = "browser.close" => background_tasks = EmptyBag

\* The one outcome of a pagination call that finds no control: the empty
\* result with the URL of the page, which stays as it is, and no click.
NoSuchPage(pg) ==
    [result |-> ResultPage(pg.url, <<>>), page |-> pg, clicked |-> FALSE]

C14_NextFailsOnLastPage ==
    [][/\ last'.op = "products_search_next"
       /\ \/ page_context # PRODUCT_SEARCH
          \/ NextPage(pages[Page]) = NoPage
       => last'.outcome # "ok"]_vars

\* The items of a full scrape of a product listing.
Items(pg) == ScrapeCards(pg.articles, 1, <<>>)

\* The primary page is a product listing that has results and a next page.
HasNextResults ==
    /\ NextPage(pages[Page]) # NoPage
    /\ Items(pages[Page]) # <<>>

ProductAbsent == \A k \in 1..Len(caller.prior) : caller.prior[k].name # Product

C17_ViewsArePassive ==
    /\ [](/\ last.op = "_run" => page_context = CART
          /\ caller.pc = "context" => caller.seen = page_context
          /\ caller.pc = "cart" => caller.seen = cart)
    /\ [][caller'.pc \in {"context", "cart"} =>
              UNCHANGED <<page_context, cart, valid_urls, background_tasks,
                          pages, site_cart, last, issued>>]_vars

\* The cart view has returned a snapshot that is out of date: the site holds
\* a cart of another length.
C17_Witness ==
    /\ caller.pc = "cart"
    /\ caller.seen # <<>>
    /\ Len(caller.seen) # Len(site_cart)

\* C18: at most one facade operation that works through the primary page is
\* in flight, and while a guarded operation is in flight, between its guard
\* and its browser action, the session stays in the context the guard has
\* checked.
C18_PrimaryPageSerialized ==
    /\ Cardinality(caller.in_flight) <= 1
    /\ \A call \in caller.in_flight :
           call.op \in GatedOps => page_context = Required(call.op)

\* The k-th record of a list, counting from 0, has index k.
GapFree(items) == \A k \in 1..Len(items) : items[k].index = k - 1

\* C19: every product list and every recipe list a scrape returns, of the
\* page shown or of the page its next control leads to, is numbered 0, 1, ...
\* without gaps, also when the scrape has skipped a card without a name, a
\* link that is no recipe or a link seen before.
C19_IndicesGapFree ==
    \A pg \in {pages[Page], NextPage(pages[Page]), PrevPage(pages[Page])} :
        /\ \A r \in _scrape_search_results(pg) : GapFree(r.items)
        /\ \A r \in _scrape_recipes_page(pg) : GapFree(r.items)

\* products_search has returned the results of a page on which the scrape
\* skips a card: fewer records than article elements, and more than none.
C19_Witness ==
    /\ last.op = "products_search"
    /\ last.outcome = "ok"
    /\ Items(pages[Page]) # <<>>
    /\ Len(Items(pages[Page])) < Len(pages[Page].articles)

\* A text of the form <int>,<int> kr: digits, a comma, digits, then ordinary
\* or non-breaking spaces, then the currency marker.
IsDigits(s) == s # <<>> /\ \A i \in 1..Len(s) : s[i] \in Digits
PriceForm(text) ==
    \E c \in 1..Len(text), m \in 1..Len(text) :
        /\ c < m
        /\ text[c] = ","
        /\ IsDigits(SubSeq(text, 1, c - 1))
        /\ \E e \in c + 1 .. m - 1 :
               /\ IsDigits(SubSeq(text, c + 1, e))
               /\ \A i \in e + 1 .. m - 1 : text[i] \in Whitespace
        /\ SubSeq(text, m, Len(text)) = <<"k", "r">>
\* The value such a text writes.
Written(text) ==
    LET c == CHOOSE i \in 1..Len(text) : text[i] = ","
        e == CHOOSE i \in c + 1 .. Len(text) :
                 /\ IsDigits(SubSeq(text, c + 1, i))
                 /\ i = Len(text) \/ text[i + 1] \notin Digits
        whole == SubSeq(text, 1, c - 1)
        fraction == SubSeq(text, c + 1, e)
    IN  Number(ToNat(whole, 0) * Pow10(Len(fraction)) + ToNat(fraction, 0),
               Pow10(Len(fraction)))
\* A text that writes no number at all: without the marker and the spaces it
\* is not digits with at most one comma or point.
Malformed(text) ==
    LET s == clean_text(text)
    IN  \/ \E i \in 1..Len(s) : s[i] \notin Digits \cup {"."}
        \/ Cardinality({i \in 1..Len(s) : s[i] = "."}) > 1
        \/ \A i \in 1..Len(s) : s[i] \notin Digits

\* C20: parse_price raises for no text and returns a number for every text,
\* the absent and the empty one included; for a text of the form
\* <int>,<int> kr it returns the value written, the comma read as the decimal
\* point; for every malformed text it returns exactly 0.0.
C20_ParsePriceTotalAndExact ==
    caller.pc = "parsed" =>
        /\ last.outcome = "ok"
        /\ caller.seen.kind = "finite"
        /\ PriceForm(caller.prior.chars) =>
               SameNumber(caller.seen, Written(caller.prior.chars))
        /\ caller.prior.none \/ Malformed(caller.prior.chars) =>
               caller.seen = Number(0, 1)

\* C21: a call of _navigate that has clicked returns a scrape only after the
\* fingerprint it read differs from the one taken before the click, or the
\* polling deadline has passed, or the poll raised, or the fingerprint taken
\* before the click was empty, in which case it never polls.  No step of the
\* wait for the URL or of the polling loop ends the call: the call goes on to
\* the scrape, which reads the page as it is then.  Every call returns, and
\* what it returns is an outcome of _navigate taken as one step.
C21_PollThenScrape ==
    /\ [](/\ caller.previous_state = "" => ~caller.polled
          /\ caller.polls <= MaxPolls
          /\ caller.pc = "done" /\ caller.found =>
                 /\ caller.clicked
                 /\ caller.result \in Call(caller.scraper_func, pages[Page])
                 /\ \/ caller.previous_state = ""
                    \/ caller.cause = "poll error"
                    \/ caller.cause = "deadline"
                          /\ DeadlineElapsed(caller.polls)
                    \/ caller.cause = "changed"
                          /\ caller.current_state # caller.previous_state
          /\ caller.pc = "done" =>
                 [found |-> caller.found, result |-> caller.result,
                  page |-> pages[Page], clicked |-> caller.clicked]
                     \in _navigate(caller.start, caller.label,
                                   caller.scraper_func))
    /\ [][caller.pc \in {"wait_for_url", "poll"} /\ caller' # caller =>
              caller'.pc \in {"networkidle", "poll", "grace"}]_vars
    /\ <>(caller.pc = "done")

\* The call has returned a scrape after the deadline passed with the
\* fingerprint as it was before the click.
C21_Witness ==
    /\ caller.pc = "done"
    /\ caller.found
    /\ caller.cause = "deadline"
    /\ caller.polls = MaxPolls
    /\ caller.current_state = caller.previous_state
    /\ caller.previous_state # ""

\* C22: when the field reads of some articles of the cart page fail, the
\* extraction still succeeds and returns the records of all the other
\* articles, each as it is extracted when nothing fails.
C22_FailureIsLocal ==
    LET articles == pages[Page].articles
        every == 1..Len(articles)
    IN  pages[Page].url = CartUrl /\ Len(articles) >= 2 =>
            \A failing \in SUBSET every :
                LET o == GatherCartItems(articles, failing)
                IN  /\ o.ok
                    /\ Len(o.items) = Cardinality(every \ failing)
                    /\ \A i \in every \ failing :
                           \E k \in 1..Len(o.items) :
                               o.items[k].name
                                   = _extract_cart_item(i - 1, articles[i]).name

\* C23: a cart mutation with an index outside 0 .. count-1, the negative ones
\* included, does not return True and clicks the control of no article.
C23_OnlyCurrentArticles ==
    \A index \in Indices :
        \A label \in {ADD_TO_CART_LABEL, REMOVE_FROM_CART_LABEL} :
            index \notin 0..(Len(pages[Page].articles) - 1) =>
                \A o \in _modify_cart(pages[Page], index, label, site_cart) :
                    /\ o.ret # "true"
                    /\ o.clicked = -1
                    /\ o.site = site_cart

\* The Recipe a block holds: the block itself when it is an object typed
\* Recipe, else the first entry typed Recipe of its "@graph" list.
RecipeEntries(block) ==
    IF block.kind = "object" /\ block.graph.is = "list"
    THEN {i \in 1..Len(block.graph.items) :
             /\ block.graph.items[i].object
             /\ block.graph.items[i].type = "Recipe"}
    ELSE {}
HoldsRecipe(block) ==
    /\ block.kind = "object"
    /\ block.type = "Recipe" \/ RecipeEntries(block) # {}
RecipeOf(block) ==
    IF block.type = "Recipe" THEN block.name
    ELSE LET first == CHOOSE i \in RecipeEntries(block) :
                          \A j \in RecipeEntries(block) : i <= j
         IN  block.graph.items[first].name

\* C24: the detail is built from the first block, in document order, that is
\* typed Recipe or has an entry typed Recipe in its "@graph" list, whatever
\* the blocks before it hold; when no block holds a Recipe the call fails and
\* returns no detail.
C24_FirstRecipeBlock ==
    caller.pc = "parsed" =>
        LET scripts == caller.prior
            holding == {i \in 1..Len(scripts) : HoldsRecipe(scripts[i])}
        IN  IF holding = {}
            THEN caller.seen.raised # "" /\ ~caller.seen.found
            ELSE LET first == CHOOSE i \in holding : \A j \in holding : i <= j
                 IN  /\ caller.seen.raised = ""
                     /\ caller.seen.found
                     /\ caller.seen.name = RecipeOf(scripts[first])

\* The predicate of the listing's links as the specification words it: the
\* segment before the last is "recipes" and the last begins with a digit.
RecipeShaped(url) ==
    /\ Len(url) >= 2
    /\ url[Len(url) - 1] = "recipes"
    /\ url[Len(url)] \in DigitSegments
\* The positions of the links that are recipe-shaped and occur there first.
FirstOccurrences(links) ==
    {i \in 1..Len(links) :
        /\ RecipeShaped(links[i])
        /\ \A j \in 1..(i - 1) : links[j] # links[i]}
\* The position of the k-th of them, from 1.
Occurrence(links, k) ==
    CHOOSE i \in FirstOccurrences(links) :
        Cardinality({j \in FirstOccurrences(links) : j < i}) = k - 1

\* C25: a scrape of the recipe listing whose batch query succeeded holds one
\* Recipe for every distinct recipe-shaped link, in the order the links first
\* occur, numbered from 0; repeated links, links that are not recipe-shaped
\* and links with further segments add nothing.
C25_OneRecipePerLink ==
    caller.pc = "_scrape_recipes" =>
        LET links == pages[Page].links
            recipes == ScrapeLinks(links, 1, {}, <<>>)
        IN  /\ caller.seen \in {<<>>, recipes}
            /\ Len(recipes) = Cardinality(FirstOccurrences(links))
            /\ \A k \in 1..Len(recipes) :
                   LET url == links[Occurrence(links, k)]
                   IN  recipes[k] = Recipe(k - 1, url[Len(url)])

\* The scrape has returned two recipes from a listing of three links, one of
\* them repeated or not recipe-shaped.
C25_Witness ==
    /\ caller.pc = "_scrape_recipes"
    /\ Len(caller.seen) = 2
    /\ Len(pages[Page].links) = 3
    /\ caller.seen[1].name = "12"
    /\ caller.seen[2].name = "608-pizza"

\* C26: search_recipes_filter takes the ids in the order given, one turn of
\* its loop for each; an id whose checkbox is not on the page, and an id the
\* toggle of which raises, is passed over and the ids after it are still
\* taken; the call always returns, with a scrape of the page as the toggles
\* left it, and with an empty list of ids nothing is toggled and the scrape
\* is that of the page as it was.
C26_EveryIdInOrder ==
    /\ [](/\ Len(caller.log) = caller.i - 1
          /\ caller.i <= Len(caller.filter_ids) + 1
          /\ \A k \in 1..Len(caller.log) :
                 /\ caller.log[k].fid = caller.filter_ids[k]
                 /\ caller.log[k].outcome = "clicked" =>
                        caller.log[k].fid \in FilterIds(pages[Page])
                 /\ caller.log[k].fid \notin FilterIds(pages[Page]) =>
                        caller.log[k].outcome \in {"not found", "raised"}
          /\ caller.checked \subseteq FilterIds(pages[Page])
          /\ caller.pc = "done" =>
                 /\ last = Returned("search_recipes_filter")
                 /\ Len(caller.log) = Len(caller.filter_ids)
                 /\ caller.result \in _scrape_recipes_page(pages[Page])
                 /\ caller.result.page_url = pages[Page].url
                 /\ caller.filter_ids = <<>> =>
                        /\ caller.checked = {}
                        /\ pages[Page] = caller.start
                 /\ [result |-> caller.result, page |-> pages[Page],
                      clicked |-> \E k \in 1..Len(caller.log) :
                                     caller.log[k].outcome = "clicked"]
                        \in search_recipes_filter(caller.start,
                                                  caller.filter_ids))
    /\ <>(caller.pc = "done")

\* The call has returned after an id that raised, an id that is not on the
\* page and an id that was clicked, in this order.
C26_Witness ==
    /\ caller.pc = "done"
    /\ Len(caller.log) = 3
    /\ caller.log[1].outcome = "raised"
    /\ caller.log[2].outcome = "not found"
    /\ caller.log[3].outcome = "clicked"
    /\ caller.checked = {"kjapp"}
    /\ caller.result.items # <<>>

\* C27: on one and the same listing, get_recipe_url(index) returns the link
\* the scrape built Recipe index from, and returns none exactly for the
\* indices outside 0 .. n-1, n the number of recipes scraped, the negative
\* ones included; for those recipes_get_details raises its ValueError and
\* leaves the detail page, the primary page and the context as they were,
\* and for the others it does not raise that error.
C27_SameLinkAsScrape ==
    /\ [](caller.pc = "get_recipe_url" =>
             LET links == pages[Page].links
                 recipes == ScrapeLinks(links, 1, {}, <<>>)
                 index == caller.prior
                 url == caller.seen
             IN  /\ url = EmptyUrl <=> index \notin 0..(Len(recipes) - 1)
                 /\ index \in 0..(Len(recipes) - 1) =>
                        /\ url = links[Occurrence(links, index + 1)]
                        /\ recipes[index + 1] = Recipe(index, url[Len(url)]))
    /\ [][caller'.pc = "recipes_get_details" =>
              LET n == Len(ScrapeLinks(pages[Page].links, 1, {}, <<>>))
              IN  IF caller'.prior \notin 0..(n - 1)
                  THEN /\ last' = Raised("recipes_get_details", "ValueError",
                                         "Could not resolve recipe index")
                       /\ pages' = pages
                       /\ page_context' = page_context
                  ELSE last'.error # "Could not resolve recipe index"]_vars

\* get_recipe_url(1) has returned the third link of a listing whose first two
\* links are one and the same recipe.
C27_Witness ==
    /\ caller.pc = "get_recipe_url"
    /\ caller.prior = 1
    /\ caller.seen = RecipeUrl
    /\ pages[Page].links = << <<"no", "recipes", "12">>,
                              <<"no", "recipes", "12">>, RecipeUrl >>

\* C28: whenever the context is the one a gated operation requires, the page
\* that operation acts on shows the kind of page the context names: the
\* primary page the cart for CART, product results for PRODUCT_SEARCH, the
\* recipe listing for RECIPE_SEARCH; the detail page a recipe for RECIPE_INFO.
C28_ContextShowsPage ==
    \A op \in GatedOps :
        page_context = Required(op) =>
            CASE page_context = CART -> pages[Page].url = CartUrl
              [] page_context = PRODUCT_SEARCH ->
                     pages[Page].url \in {ProductSearchUrl(q) : q \in Queries}
              [] page_context = RECIPE_SEARCH ->
                     pages[Page].url = RecipeSearchUrl
              [] page_context = RECIPE_INFO ->
                     pages[DetailPage].url = RecipeUrl

\* The cart as a scrape of the cart page reads it.
CartOf(sc) == [i \in 1..Len(sc) |-> _extract_cart_item(i - 1, sc[i])]

\* C29: once a cart mutation has happened, every refresh task has completed,
\* none of them has failed, and nothing has changed the cart since, the
\* cached snapshot is the cart as it is, however the refreshes and the cart
\* reads were interleaved.
C29_SnapshotCatchesUp ==
    (/\ caller.mutations > 0
     /\ ~caller.failed
     /\ background_tasks = EmptyBag) => cart = CartOf(site_cart)

====
